---- MODULE Spec2Model ----
(***************************************************************************)
(* Model of src/modelwar_bridge.py: the stdin reader thread, the main      *)
(* command loop, the run_agent listener task, the query tasks and the      *)
(* bridge_request tool calls, all sharing one asyncio event loop.          *)
(***************************************************************************)
EXTENDS Integers, Sequences, FiniteSets, TLC

(* ---- bounds of the model ---- *)
MaxTurns == 3       \* user messages with text that are accepted or queued
MaxCalls == 2       \* bridge_request invocations
MaxQueue == 2       \* commands waiting in command_queue
MaxCallbacks == 2   \* settles scheduled on the event loop and not yet run
RegistryQueue == 1      \* MaxQueue of the registry specification
RegistryCallbacks == 1  \* MaxCallbacks of the registry specification
RegistryTurns == 1      \* messages with text of the registry specification

MaxDeltas == 1      \* text deltas the runtime streams in one turn
MaxBlocks == 1      \* content blocks of one AssistantMessage
MaxAgentTexts == 1  \* agent_text events in the recorded history of events

Turns == 1..MaxTurns
Calls == 1..MaxCalls
UnknownId == 0      \* a request_id that bridge_request never issued

VARIABLES
  reader,             \* _stdin_reader_thread: "running", "lookup", "eof", "dead"
  readerCmd,          \* the tool_response the reader holds between l.383 and l.384
  command_queue,      \* asyncio.Queue of commands for main()
  mainPc,             \* where main() is suspended
  running,            \* main(): running
  client,             \* main(): client is not None
  connected,          \* the runtime behind client is connected
  agent_task,         \* "none", "running", "cancelling", "done"
  interrupt_flag,     \* interrupt_flag[0]
  user_message_flag,  \* user_message_flag[0]
  query_active,       \* query_active[0]
  current_context,    \* parts of the preamble, in order
  queryTasks,         \* created client.query() tasks that have not run yet
  outstanding,        \* turns sent to the runtime whose ResultMessage is not received
  nextTurn,           \* number of user messages accepted so far
  pending_requests,   \* keys of the pending_requests dict
  fut,                \* state of the future of each call
  callPc,             \* bridge_request invocation: "unused", "waiting", "done"
  nextId,             \* next fresh request_id (uuid4)
  callbacks,          \* settles scheduled with call_soon_threadsafe, in order
  out,                \* events written to stdout by the latest step
  err,                \* debug lines written to stderr by the latest step
  preempted,          \* history: a later message was accepted before the turn completed
  turnEnded,          \* history: turn_ended events emitted on the completion of each turn
  raised,             \* exceptions the latest step raised past every handler of the bridge
  outcome,            \* history: how each bridge_request ended
  removed,            \* history: times each id was removed from pending_requests
  shutdownDone,       \* history: the shutdown handler ran to its end (either way)
  polling,            \* main() is inside the wait_for it entered before handle_signal ran
  streamed_text,      \* run_agent: streamed_text
  block,              \* the content block the runtime is streaming: "none", "text", "thinking", "tool_use"
  deltas,             \* text deltas the runtime has streamed in the turn it works on
  outText,            \* content of the agent_text and agent_thinking events of the latest step
  textStreamed,       \* history: stream_text_start or stream_text_delta went out since the last ResultMessage
  events,             \* history: the stream_text_delta, agent_text and turn_ended events so far
  sessions,           \* history: clients constructed (l.637)
  agentError,         \* history: the listener reported an error of the runtime and returned
  results,            \* history: ResultMessages the listener has received
  readies,            \* history: session_ready events emitted
  message             \* the content of the AssistantMessage the latest step handled

vars == <<reader, readerCmd, command_queue, mainPc, running,
          client, connected, agent_task, interrupt_flag, user_message_flag,
          query_active, current_context, queryTasks, outstanding, nextTurn,
          pending_requests, fut, callPc, nextId, callbacks, out, err, preempted,
          turnEnded, raised, outcome, removed, shutdownDone, polling,
          streamed_text, block, deltas, outText, textStreamed, events,
          sessions, agentError, results, readies, message>>

readerVars == <<reader, readerCmd>>
mainVars == <<mainPc, running, client, connected>>
flagVars == <<interrupt_flag, user_message_flag, query_active>>
turnVars == <<queryTasks, outstanding, nextTurn, preempted, turnEnded>>
callVars == <<pending_requests, fut, callPc, nextId, outcome, removed>>
streamVars == <<streamed_text, block, deltas, textStreamed, events>>
histVars == <<sessions, agentError, results, readies>>

(* ---- lines of the inbound stream ---- *)
Line(kind, command, text, id, is_error, wc, rb) ==
  [kind |-> kind, command |-> command, text |-> text, request_id |-> id,
   is_error |-> is_error, warrior_code |-> wc, recent_battle |-> rb]

Cmd(command) == Line("object", command, "", UnknownId, FALSE, FALSE, FALSE)
BlankLine == Line("blank", "", "", UnknownId, FALSE, FALSE, FALSE)
GarbageLine == Line("garbage", "", "", UnknownId, FALSE, FALSE, FALSE)
NonObjectLine == Line("nonobject", "", "", UnknownId, FALSE, FALSE, FALSE)
UserMessage(text) == Line("object", "user_message", text, UnknownId, FALSE, FALSE, FALSE)
ToolResponse(id, is_error) == Line("object", "tool_response", "", id, is_error, FALSE, FALSE)
SetContext(wc, rb) == Line("object", "set_context", "", UnknownId, FALSE, wc, rb)

NoCmd == BlankLine

Alive == mainPc # "exited"

\* emit()/emit_log() and debug() of one step: the lines on stdout with the
\* content of the agent_text and agent_thinking events among them, and the
\* lines on stderr.
Hears(content, sent, texts, debugs, exceptions) ==
  /\ message' = content
  /\ out' = sent /\ outText' = texts /\ err' = debugs /\ raised' = exceptions

Says(sent, texts, debugs, exceptions) == Hears(<<>>, sent, texts, debugs, exceptions)

Raises(sent, debugs, exceptions) == Says(sent, <<>>, debugs, exceptions)

Writes(sent, debugs) == Raises(sent, debugs, {})

Init ==
  /\ reader = "running"
  /\ readerCmd = NoCmd
  /\ command_queue = <<>>
  /\ mainPc = "wait"
  /\ running = TRUE
  /\ client = FALSE
  /\ connected = FALSE
  /\ agent_task = "none"
  /\ interrupt_flag = FALSE
  /\ user_message_flag = FALSE
  /\ query_active = FALSE
  /\ current_context = <<>>
  /\ queryTasks = <<>>
  /\ outstanding = <<>>
  /\ nextTurn = 0
  /\ pending_requests = {}
  /\ fut = [i \in Calls |-> "none"]
  /\ callPc = [i \in Calls |-> "unused"]
  /\ nextId = 1
  /\ callbacks = <<>>
  /\ out = <<>>
  /\ err = <<>>
  /\ preempted = [t \in Turns |-> FALSE]
  /\ turnEnded = [t \in Turns |-> 0]
  /\ raised = {}
  /\ outcome = [i \in Calls |-> "none"]
  /\ removed = [i \in Calls |-> 0]
  /\ shutdownDone = FALSE
  /\ polling = FALSE
  /\ streamed_text = FALSE
  /\ block = "none"
  /\ deltas = 0
  /\ outText = <<>>
  /\ textStreamed = FALSE
  /\ events = <<>>
  /\ sessions = 0
  /\ agentError = FALSE
  /\ results = 0
  /\ readies = 0
  /\ message = <<>>

(* ---- the host: the lines it may write next to the inbound stream ---- *)
\* Messages with text that wait in the queue.
QueuedMessages ==
  Cardinality({k \in 1..Len(command_queue) : command_queue[k] = UserMessage("t")})

\* A host h is the set of lines it writes (h.lines), the number of messages
\* with text it sends (h.turns), whether it answers tool requests
\* (h.responses), and how far it runs ahead of the program: the commands it
\* lets wait in command_queue (h.queue) and the settles it lets wait on the
\* event loop (h.callbacks).  A tool_response names an id the host has seen
\* in a tool_request, or an id that was never issued.
HostLines(h) ==
  {l \in h.lines : l = UserMessage("t") => nextTurn + QueuedMessages < h.turns}
  \cup (IF h.responses
        THEN {ToolResponse(i, e) : i \in {UnknownId} \cup 1..(nextId - 1),
                                   e \in BOOLEAN}
        ELSE {})

AllLines ==
  {BlankLine, GarbageLine, NonObjectLine, Cmd("start_session"), Cmd("shutdown"),
   Cmd("bogus"), UserMessage(""), UserMessage("t")}
  \cup {SetContext(wc, rb) : wc \in BOOLEAN, rb \in BOOLEAN}

AnyHost ==
  [lines |-> AllLines, turns |-> MaxTurns, responses |-> TRUE,
   queue |-> MaxQueue, callbacks |-> MaxCallbacks]

(* ---- _stdin_reader_thread ---- *)
\* An error event written from the reader thread for a line that is not JSON.
InvalidJsonEventsEmitted == <<"error">>

\* l.372-374: the handler of JSONDecodeError calls debug() only.
InvalidJsonEvents == <<>>

\* l.366-374: a blank line, or a line json.loads rejects.
ReaderSkips(h) ==
  /\ Alive
  /\ reader = "running"
  /\ \E l \in HostLines(h) :
       \/ l.kind = "blank" /\ Writes(<<>>, <<>>)
       \/ l.kind = "garbage" /\ Writes(InvalidJsonEvents, <<"invalid JSON">>)
  /\ UNCHANGED <<readerVars, command_queue, mainVars, agent_task, flagVars,
                 current_context, turnVars, callVars, callbacks, shutdownDone,
                 polling, streamVars, histVars>>

\* l.376, 400-402: json.loads returned something that is not an object;
\* cmd.get raises AttributeError, which the handler around the for loop
\* catches: the thread returns.
ReaderDies(h) ==
  /\ Alive
  /\ reader = "running"
  /\ \E l \in HostLines(h) : l.kind = "nonobject"
  /\ reader' = "dead"
  /\ Writes(<<>>, <<"stdin thread error", "stdin thread exited">>)
  /\ UNCHANGED <<readerCmd, command_queue, mainVars, agent_task, flagVars,
                 current_context, turnVars, callVars, callbacks, shutdownDone,
                 polling, streamVars, histVars>>

\* l.379-383, 395-396: a tool_response, up to the membership test; one whose
\* id is in pending_requests continues in ReaderLookup.
ReaderToolResponse(h) ==
  /\ Alive
  /\ reader = "running"
  /\ \E l \in HostLines(h) :
       /\ l.kind = "object" /\ l.command = "tool_response"
       /\ IF l.request_id # UnknownId /\ l.request_id \in pending_requests
          THEN /\ Len(callbacks) < h.callbacks
               /\ reader' = "lookup"
               /\ readerCmd' = l
               /\ Writes(<<>>, <<"received command", "tool_response for">>)
          ELSE /\ Writes(<<>>, <<"received command", "tool_response for",
                                 "unknown request_id">>)
               /\ UNCHANGED readerVars
  /\ UNCHANGED <<command_queue, mainVars, agent_task, flagVars,
                 current_context, turnVars, callVars, callbacks, shutdownDone,
                 polling, streamVars, histVars>>

\* The future taken by the order of the requests: that of the oldest entry.
PendingFutureOldest(id) ==
  CHOOSE i \in pending_requests : \A j \in pending_requests : i <= j

\* l.384: `future = pending_requests[request_id]`, the call whose future the
\* entry of the id holds.
PendingFuture(id) == id

\* l.384-394: fetch the future and, unless it is done, schedule its settle on
\* the event loop.  The dict is shared with the event loop thread: the entry
\* may have been popped since the membership test.
ReaderLookup ==
  /\ Alive
  /\ reader = "lookup"
  /\ LET id == readerCmd.request_id IN
       IF id \in pending_requests
       THEN /\ reader' = "running"
            /\ IF fut[PendingFuture(id)] = "pending"
               THEN /\ callbacks' = Append(callbacks, <<PendingFuture(id),
                                                        readerCmd.is_error>>)
                    /\ Writes(<<>>, <<"resolved future">>)
               ELSE /\ Writes(<<>>, <<"future already done">>)
                    /\ UNCHANGED callbacks
       ELSE /\ reader' = "dead"
            /\ Raises(<<>>, <<"stdin thread error", "stdin thread exited">>,
                      {"KeyError"})
            /\ UNCHANGED callbacks
  /\ readerCmd' = NoCmd
  /\ UNCHANGED <<command_queue, mainVars, agent_task, flagVars,
                 current_context, turnVars, callVars, shutdownDone,
                 polling, streamVars, histVars>>

\* l.397-399: any other command goes to command_queue.
ReaderQueues(h) ==
  /\ Alive
  /\ reader = "running"
  /\ Len(command_queue) < h.queue
  /\ \E l \in HostLines(h) :
       /\ l.kind = "object" /\ l.command # "tool_response"
       /\ command_queue' = Append(command_queue, l)
  /\ Writes(<<>>, <<"received command">>)
  /\ UNCHANGED <<readerVars, mainVars, agent_task, flagVars, current_context,
                 turnVars, callVars, callbacks, shutdownDone,
                 polling, streamVars, histVars>>

\* l.366, 402: the host closed the stream; the for loop ends and the thread
\* returns.
ReaderEof ==
  /\ Alive
  /\ reader = "running"
  /\ reader' = "eof"
  /\ Writes(<<>>, <<"stdin thread exited">>)
  /\ UNCHANGED <<readerCmd, command_queue, mainVars, agent_task, flagVars,
                 current_context, turnVars, callVars, callbacks, shutdownDone,
                 polling, streamVars, histVars>>

(* ---- main(): the command loop ---- *)
\* l.583-592: main() took the next command off the queue; it entered the
\* wait_for of l.586 with running set, which handle_signal may have cleared
\* since.
MainTakes(command) ==
  /\ Alive
  /\ mainPc = "wait"
  /\ running \/ polling
  /\ command_queue # <<>>
  /\ Head(command_queue).command = command
  /\ command_queue' = Tail(command_queue)
  /\ polling' = FALSE

\* start_session handled without the test of l.595.
SessionActiveNever(c) == FALSE

\* l.595: `if client:`.
SessionActive(c) == c

\* l.594-640: start_session, up to `await client.connect()`.
MainStartSession ==
  /\ MainTakes("start_session")
  /\ IF SessionActive(client)
     THEN /\ Writes(<<>>, <<"processing command", "Session already active">>)
          /\ UNCHANGED <<mainPc, client, sessions>>
     ELSE /\ client' = TRUE
          /\ sessions' = sessions + 1
          /\ mainPc' = "connecting"
          /\ Writes(<<>>, <<"processing command", "Connecting agent">>)
  /\ UNCHANGED <<readerVars, running, connected, agent_task, flagVars,
                 current_context, turnVars, callVars, callbacks, shutdownDone,
                 streamVars, agentError, results, readies>>

\* session_ready sent although connect() raised.
ConnectFailureEventsReady == <<"session_ready", "error">>

\* l.640, 703-705: the exception of connect() skips l.641-648 and reaches the
\* handler of the loop, which emits one error event.
ConnectFailureEvents == <<"error">>

\* l.640-644: connect() returns and the listener task is created, or
\* connect() raises into the handler of l.703-705.
MainConnectDone ==
  /\ Alive
  /\ mainPc = "connecting"
  /\ \E ok \in BOOLEAN :
       IF ok
       THEN /\ connected' = TRUE
            /\ agent_task' = "running"
            /\ mainPc' = "sleeping"
            /\ Writes(<<>>, <<>>)
       ELSE /\ mainPc' = "wait"
            /\ Writes(ConnectFailureEvents, <<"main loop error">>)
            /\ UNCHANGED <<connected, agent_task>>
  /\ UNCHANGED <<readerVars, command_queue, running, client, flagVars,
                 current_context, turnVars, callVars, callbacks, shutdownDone,
                 polling, streamVars, histVars>>

\* l.644-648: the sleep is over, session_ready goes out.
MainSleepDone ==
  /\ Alive
  /\ mainPc = "sleeping"
  /\ mainPc' = "wait"
  /\ Writes(<<"session_ready", "log">>, <<"Session ready">>)
  /\ readies' = readies + 1
  /\ UNCHANGED <<readerVars, command_queue, running, client, connected,
                 agent_task, flagVars, current_context, turnVars, callVars,
                 callbacks, shutdownDone,
                 polling, streamVars, sessions, agentError, results>>

\* The turns that were accepted and whose ResultMessage the listener has not
\* received: their query task is not created yet, has not run yet, or is with
\* the runtime.
OpenTurns ==
  {t \in 1..nextTurn : \/ mainPc = "interrupting" /\ t = nextTurn
                       \/ \E k \in 1..Len(queryTasks) : queryTasks[k] = t
                       \/ \E k \in 1..Len(outstanding) : outstanding[k] = t}

\* l.650-673: user_message, up to `await client.interrupt()` when a query is
\* active, else to the end of the handler.
MainUserMessage ==
  /\ MainTakes("user_message")
  /\ LET text == Head(command_queue).text IN
       IF text = ""
       THEN /\ Writes(<<>>, <<"processing command">>)
            /\ UNCHANGED <<mainPc, flagVars, turnVars>>
       ELSE IF ~client
       THEN /\ Writes(<<"error">>, <<"processing command">>)
            /\ UNCHANGED <<mainPc, flagVars, turnVars>>
       ELSE /\ Writes(<<>>, <<"processing command", "User message">>)
            /\ user_message_flag' = TRUE
            /\ nextTurn' = nextTurn + 1
            /\ preempted' = [t \in Turns |-> preempted[t] \/ t \in OpenTurns]
            /\ IF query_active
               THEN /\ interrupt_flag' = TRUE
                    /\ mainPc' = "interrupting"
                    /\ UNCHANGED <<query_active, queryTasks>>
               ELSE /\ query_active' = TRUE
                    /\ queryTasks' = Append(queryTasks, nextTurn + 1)
                    /\ UNCHANGED <<interrupt_flag, mainPc>>
            /\ UNCHANGED <<outstanding, turnEnded>>
  /\ UNCHANGED <<readerVars, running, client, connected, agent_task,
                 current_context, callVars, callbacks, shutdownDone,
                 streamVars, histVars>>

\* The query created only when interrupt() returned: its exception reaches
\* the handler of l.703-705.
QueryAfterInterruptReturned(ok) == ok

\* l.665-668: `try: await client.interrupt()` / `except Exception: pass`;
\* l.669-671 run whether interrupt() returned (ok) or raised.
QueryAfterInterrupt(ok) == TRUE

\* l.666-671: interrupt() returned or raised (the exception is dropped); the
\* query task of the new message is created.
MainInterruptDone ==
  /\ Alive
  /\ mainPc = "interrupting"
  /\ \E ok \in BOOLEAN :
       IF QueryAfterInterrupt(ok)
       THEN /\ query_active' = TRUE
            /\ queryTasks' = Append(queryTasks, nextTurn)
            /\ Writes(<<>>, <<>>)
       ELSE /\ Writes(<<"error">>, <<"main loop error">>)
            /\ UNCHANGED <<query_active, queryTasks>>
  /\ mainPc' = "wait"
  /\ UNCHANGED <<readerVars, command_queue, running, client, connected,
                 agent_task, interrupt_flag, user_message_flag, current_context,
                 outstanding, nextTurn, preempted, turnEnded, callVars,
                 callbacks, shutdownDone,
                 polling, streamVars, histVars>>

\* l.671: a task created for client.query(full_message) runs; on a client
\* that is not connected the query raises inside the task.
QueryTaskRun ==
  /\ Alive
  /\ queryTasks # <<>>
  /\ queryTasks' = Tail(queryTasks)
  /\ IF connected
     THEN /\ outstanding' = Append(outstanding, Head(queryTasks))
          /\ Writes(<<>>, <<>>)
     ELSE /\ Raises(<<>>, <<>>, {"QueryError"})
          /\ UNCHANGED outstanding
  /\ UNCHANGED <<readerVars, command_queue, mainVars, agent_task,
                 flagVars, current_context, nextTurn, preempted, turnEnded,
                 callVars, callbacks, shutdownDone,
                 polling, streamVars, histVars>>

\* The preamble kept when the command carries neither field.
ContextPartsKept(cmd) ==
  IF ~cmd.warrior_code /\ ~cmd.recent_battle THEN current_context
  ELSE (IF cmd.warrior_code THEN <<"warrior_code">> ELSE <<>>)
       \o (IF cmd.recent_battle THEN <<"recent_battle">> ELSE <<>>)

\* l.679-685: the parts of the preamble built from the command.
ContextParts(cmd) ==
  (IF cmd.warrior_code THEN <<"warrior_code">> ELSE <<>>)
  \o (IF cmd.recent_battle THEN <<"recent_battle">> ELSE <<>>)

\* l.675-686: set_context.
MainSetContext ==
  /\ MainTakes("set_context")
  /\ current_context' = ContextParts(Head(command_queue))
  /\ Writes(<<>>, <<"processing command", "Context updated">>)
  /\ UNCHANGED <<readerVars, mainVars, agent_task, flagVars, turnVars,
                 callVars, callbacks, shutdownDone,
                 streamVars, histVars>>

\* A command that no branch of l.594-688 matches.
MainUnknown ==
  /\ Alive
  /\ mainPc = "wait"
  /\ running \/ polling
  /\ command_queue # <<>>
  /\ Head(command_queue).command \notin
       {"start_session", "user_message", "set_context", "shutdown"}
  /\ command_queue' = Tail(command_queue)
  /\ polling' = FALSE
  /\ Writes(<<>>, <<"processing command">>)
  /\ UNCHANGED <<readerVars, mainVars, agent_task, flagVars,
                 current_context, turnVars, callVars, callbacks, shutdownDone,
                 streamVars, histVars>>

\* l.688-698: shutdown, up to its first await (or to the end when there is
\* neither a live listener nor a client).
MainShutdown ==
  /\ MainTakes("shutdown")
  /\ IF agent_task = "running"
     THEN /\ agent_task' = "cancelling"
          /\ mainPc' = "awaitAgent"
          /\ Writes(<<>>, <<"processing command">>)
          /\ UNCHANGED <<running, shutdownDone>>
     ELSE IF client
     THEN /\ mainPc' = "disconnecting"
          /\ Writes(<<>>, <<"processing command">>)
          /\ UNCHANGED <<agent_task, running, shutdownDone>>
     ELSE /\ running' = FALSE
          /\ mainPc' = "exited"
          /\ shutdownDone' = TRUE
          /\ Writes(<<>>, <<"processing command", "main loop exited">>)
          /\ UNCHANGED agent_task
  /\ UNCHANGED <<readerVars, client, connected, flagVars,
                 current_context, turnVars, callVars, callbacks,
                 streamVars, histVars>>

\* l.691-695: `await agent_task` returns with CancelledError; client is set.
MainAfterCancel ==
  /\ Alive
  /\ mainPc = "awaitAgent"
  /\ agent_task = "done"
  /\ mainPc' = "disconnecting"
  /\ Writes(<<>>, <<>>)
  /\ UNCHANGED <<readerVars, command_queue, running, client, connected,
                 agent_task, flagVars, current_context, turnVars, callVars,
                 callbacks, shutdownDone,
                 polling, streamVars, histVars>>

\* l.696-698, 707-713: disconnect() returns, the loop ends and main() returns;
\* or disconnect() raises into the handler of l.703-705, past l.697-698.
MainDisconnectDone ==
  /\ Alive
  /\ mainPc = "disconnecting"
  /\ \E ok \in BOOLEAN :
       IF ok
       THEN /\ connected' = FALSE
            /\ client' = FALSE
            /\ running' = FALSE
            /\ mainPc' = "exited"
            /\ Writes(<<>>, <<"main loop exited">>)
       ELSE /\ mainPc' = "wait"
            /\ Writes(<<"error">>, <<"main loop error">>)
            /\ UNCHANGED <<connected, client, running>>
  /\ shutdownDone' = TRUE
  /\ UNCHANGED <<readerVars, command_queue, agent_task, flagVars,
                 current_context, turnVars, callVars, callbacks,
                 polling, streamVars, histVars>>

(* ---- SIGTERM / SIGINT ---- *)
\* l.565-572: handle_signal runs on the main thread between two steps of the
\* event loop. main() suspended in the wait_for of l.586 stays there until a
\* command arrives or the 0.5 s run out.
Signal ==
  /\ Alive
  /\ running' = FALSE
  /\ agent_task' = IF agent_task = "running" THEN "cancelling" ELSE agent_task
  /\ polling' = IF mainPc = "wait" /\ running THEN TRUE ELSE polling
  /\ Writes(<<>>, <<>>)
  /\ UNCHANGED <<readerVars, command_queue, mainPc, client, connected, flagVars,
                 current_context, turnVars, callVars, callbacks, shutdownDone,
                 streamVars, histVars>>

\* l.587-588: wait_for times out on the empty queue and the loop continues.
MainPollTimeout ==
  /\ Alive
  /\ mainPc = "wait"
  /\ polling
  /\ command_queue = <<>>
  /\ polling' = FALSE
  /\ Writes(<<>>, <<>>)
  /\ UNCHANGED <<readerVars, command_queue, mainVars, agent_task, flagVars,
                 current_context, turnVars, callVars, callbacks, shutdownDone,
                 streamVars, histVars>>

\* l.583, 707-709: `while running` is false; the loop ends.
MainLoopExit ==
  /\ Alive
  /\ mainPc = "wait"
  /\ ~running
  /\ ~polling
  /\ IF client
     THEN /\ mainPc' = "finalDisconnect"
          /\ Writes(<<>>, <<"main loop exited">>)
     ELSE /\ mainPc' = "exited"
          /\ Writes(<<>>, <<"main loop exited", "bridge process exiting">>)
  /\ UNCHANGED <<readerVars, command_queue, running, client, connected,
                 agent_task, flagVars, current_context, turnVars, callVars,
                 callbacks, shutdownDone, polling, streamVars, histVars>>

\* l.708-713: the last disconnect(), whose exception is dropped; main()
\* returns.
MainFinalDisconnect ==
  /\ mainPc = "finalDisconnect"
  /\ \E ok \in BOOLEAN : connected' = (connected /\ ~ok)
  /\ mainPc' = "exited"
  /\ Writes(<<>>, <<"bridge process exiting">>)
  /\ UNCHANGED <<readerVars, command_queue, running, client,
                 agent_task, flagVars, current_context, turnVars, callVars,
                 callbacks, shutdownDone, polling, streamVars, histVars>>

(* ---- run_agent: the listener task ---- *)
\* streamed_text never set by a stream event.
SetsStreamedTextLost(event, streamed) == streamed

\* l.476-478, 484: streamed_text after a stream event of a text block; only
\* the start of the block sets it.
SetsStreamedText(event, streamed) == event = "start" \/ streamed

\* The aggregate blocks handled without a look at streamed_text.
SkipsAggregateNever(streamed) == FALSE

\* l.497, 503: `if streamed_text: continue`.
SkipsAggregate(streamed) == streamed

\* An entry of the history of events: a stream_text_delta with the number of
\* the delta in its turn, an agent_text or a turn_ended.
Event(type, n) == [type |-> type, n |-> n]

\* The content blocks of the messages of the runtime.
Block(type, text) == [type |-> type, text |-> text]

AllBlocks ==
  {Block("text", "x"), Block("text", " "), Block("thinking", "y"),
   Block("tool_use", ""), Block("tool_result", "")}

\* A runtime r is the kinds of content block it streams (r.kinds), the text
\* deltas it streams in one turn (r.deltas) and the blocks it delivers in
\* AssistantMessages (r.blocks).
AnyRuntime ==
  [kinds |-> {"text", "thinking", "tool_use"}, deltas |-> MaxDeltas,
   blocks |-> AllBlocks]

Contents(r) == UNION {[1..n -> r.blocks] : n \in 1..MaxBlocks}

\* l.471-478: content_block_start.
ListenerStreamStart(r) ==
  /\ Alive
  /\ agent_task = "running"
  /\ outstanding # <<>>
  /\ block = "none"
  /\ \E kind \in r.kinds :
       /\ block' = kind
       /\ CASE kind = "text" ->
                 /\ Writes(<<"stream_text_start">>, <<"msg">>)
                 /\ streamed_text' = SetsStreamedText("start", streamed_text)
                 /\ textStreamed' = TRUE
            [] kind = "thinking" ->
                 /\ Writes(<<"stream_thinking_start">>, <<"msg">>)
                 /\ UNCHANGED <<streamed_text, textStreamed>>
            [] OTHER ->
                 /\ Writes(<<"stream_tool_start">>, <<"msg">>)
                 /\ UNCHANGED <<streamed_text, textStreamed>>
  /\ UNCHANGED <<readerVars, command_queue, mainVars, agent_task, flagVars,
                 current_context, turnVars, callVars, callbacks, shutdownDone,
                 polling, deltas, events, histVars>>

\* l.480-486: content_block_delta; a delta of another type (the input of a
\* tool invocation) is not forwarded.
ListenerStreamDelta(r) ==
  /\ Alive
  /\ agent_task = "running"
  /\ outstanding # <<>>
  /\ CASE block = "text" ->
            /\ deltas < r.deltas
            /\ deltas' = deltas + 1
            /\ Writes(<<"stream_text_delta">>, <<"msg">>)
            /\ streamed_text' = SetsStreamedText("delta", streamed_text)
            /\ textStreamed' = TRUE
            /\ events' = Append(events, Event("stream_text_delta", deltas + 1))
       [] block = "thinking" ->
            /\ Writes(<<"stream_thinking_delta">>, <<"msg">>)
            /\ UNCHANGED <<deltas, streamed_text, textStreamed, events>>
       [] block = "tool_use" ->
            /\ Writes(<<>>, <<"msg">>)
            /\ UNCHANGED <<deltas, streamed_text, textStreamed, events>>
       [] OTHER -> FALSE
  /\ UNCHANGED <<readerVars, command_queue, mainVars, agent_task, flagVars,
                 current_context, turnVars, callVars, callbacks, shutdownDone,
                 polling, block, histVars>>

\* l.488-489: content_block_stop.
ListenerStreamStop ==
  /\ Alive
  /\ agent_task = "running"
  /\ outstanding # <<>>
  /\ block # "none"
  /\ block' = "none"
  /\ Writes(<<"stream_content_stop">>, <<"msg">>)
  /\ UNCHANGED <<readerVars, command_queue, mainVars, agent_task, flagVars,
                 current_context, turnVars, callVars, callbacks, shutdownDone,
                 polling, streamed_text, deltas, textStreamed, events, histVars>>

\* l.498: block.text.strip() on the texts of the model.
Strip(text) == IF text = " " THEN "" ELSE text

\* l.493-519: the events of the blocks of an AssistantMessage, in order.
RECURSIVE BlockEvents(_, _)
BlockEvents(content, streamed) ==
  IF content = <<>> THEN <<>>
  ELSE LET b == Head(content) IN
       (CASE b.type = "text" ->
               IF SkipsAggregate(streamed) THEN <<>>
               ELSE IF Strip(b.text) # "" THEN <<"agent_text">> ELSE <<>>
          [] b.type = "thinking" ->
               IF SkipsAggregate(streamed) THEN <<>> ELSE <<"agent_thinking">>
          [] b.type = "tool_use" -> <<"agent_tool_use">>
          [] OTHER -> <<"agent_tool_result">>)
       \o BlockEvents(Tail(content), streamed)

\* l.500, 505: the agent_text and agent_thinking events with their content
\* field (block.text, block.thinking).
RECURSIVE BlockTexts(_, _)
BlockTexts(content, streamed) ==
  IF content = <<>> THEN <<>>
  ELSE LET b == Head(content) IN
       (CASE b.type = "text" /\ ~SkipsAggregate(streamed) /\ Strip(b.text) # "" ->
               <<[type |-> "agent_text", content |-> b.text]>>
          [] b.type = "thinking" /\ ~SkipsAggregate(streamed) ->
               <<[type |-> "agent_thinking", content |-> b.text]>>
          [] OTHER -> <<>>)
       \o BlockTexts(Tail(content), streamed)

\* The agent_text events among the events of a step, as entries of the history.
AgentTexts(sent) ==
  [k \in 1..Len(SelectSeq(sent, LAMBDA e : e = "agent_text")) |-> Event("agent_text", 0)]

\* l.492-519: an AssistantMessage.
ListenerAssistant(r) ==
  /\ Alive
  /\ agent_task = "running"
  /\ outstanding # <<>>
  /\ Len(SelectSeq(events, LAMBDA e : e.type = "agent_text")) < MaxAgentTexts
  /\ \E content \in Contents(r) :
       /\ Hears(content, BlockEvents(content, streamed_text),
                BlockTexts(content, streamed_text), <<"msg">>, {})
       /\ events' = events \o AgentTexts(BlockEvents(content, streamed_text))
  /\ UNCHANGED <<readerVars, command_queue, mainVars, agent_task, flagVars,
                 current_context, turnVars, callVars, callbacks, shutdownDone,
                 polling, streamed_text, block, deltas, textStreamed, histVars>>

\* streamed_text kept across the completion of a preempted turn.
ClearsStreamedTextFresh(stale) == ~stale

\* l.524: `streamed_text = False`, ahead of the test of interrupt_flag.
ClearsStreamedText(stale) == TRUE

\* l.521-537: the listener receives the ResultMessage of the oldest query the
\* runtime is working on.
ListenerResult ==
  /\ Alive
  /\ agent_task = "running"
  /\ outstanding # <<>>
  /\ outstanding' = Tail(outstanding)
  /\ query_active' = FALSE
  /\ streamed_text' = (streamed_text /\ ~ClearsStreamedText(interrupt_flag))
  /\ block' = "none"
  /\ deltas' = 0
  /\ textStreamed' = FALSE
  /\ results' = results + 1
  /\ IF interrupt_flag
     THEN /\ interrupt_flag' = FALSE
          /\ Writes(<<>>, <<"ResultMessage received", "Ignoring ResultMessage">>)
          /\ UNCHANGED <<user_message_flag, turnEnded, events>>
     ELSE /\ user_message_flag' = FALSE
          /\ Writes(<<"log", "turn_ended">>,
                    IF user_message_flag
                    THEN <<"ResultMessage received", "User message answered">>
                    ELSE <<"ResultMessage received">>)
          /\ turnEnded' = [turnEnded EXCEPT ![Head(outstanding)] = @ + 1]
          /\ events' = Append(events, Event("turn_ended", 0))
          /\ UNCHANGED interrupt_flag
  /\ UNCHANGED <<readerVars, command_queue, mainVars, agent_task,
                 current_context, queryTasks, nextTurn, preempted, callVars,
                 callbacks, shutdownDone,
                 polling, sessions, agentError, readies>>

\* l.543-549: receive_messages() raises, or ends; the listener returns.
ListenerStops ==
  /\ Alive
  /\ agent_task = "running"
  /\ agent_task' = "done"
  /\ \E failed \in BOOLEAN :
       /\ agentError' = (agentError \/ failed)
       /\ IF failed
          THEN Writes(<<"log", "error", "log">>, <<"Error in run_agent", "run_agent: exiting">>)
          ELSE Writes(<<"log">>, <<"run_agent: exiting">>)
  /\ UNCHANGED <<readerVars, command_queue, mainVars, flagVars,
                 current_context, turnVars, callVars, callbacks, shutdownDone,
                 polling, streamVars, sessions, results, readies>>

\* The cancelled listener closing the turn towards the host.
CancelledEventsWithTurnEnded == <<"log", "turn_ended">>

\* l.540-541: the events of the handler of CancelledError.
CancelledEvents == <<"log">>

\* l.539-542: the cancelled listener logs and re-raises CancelledError.
AgentCancelled ==
  /\ Alive
  /\ agent_task = "cancelling"
  /\ agent_task' = "done"
  /\ Writes(CancelledEvents, <<"run_agent: cancelled">>)
  /\ UNCHANGED <<readerVars, command_queue, mainVars, flagVars,
                 current_context, turnVars, callVars, callbacks, shutdownDone,
                 polling, streamVars, histVars>>

(* ---- call_tool / bridge_request ---- *)
\* l.323-341: the runtime invokes a tool during a turn; the call registers
\* its future, emits tool_request and suspends in wait_for.
ToolCallStart ==
  /\ Alive
  /\ connected
  /\ outstanding # <<>>
  /\ nextId <= MaxCalls
  /\ nextId' = nextId + 1
  /\ pending_requests' = pending_requests \cup {nextId}
  /\ fut' = [fut EXCEPT ![nextId] = "pending"]
  /\ callPc' = [callPc EXCEPT ![nextId] = "waiting"]
  /\ Writes(<<"log", "tool_request">>, <<"MCP call_tool", "bridge_request: emitting">>)
  /\ UNCHANGED <<readerVars, command_queue, mainVars, agent_task,
                 flagVars, current_context, turnVars, callbacks, outcome, removed, shutdownDone,
                 polling, streamVars, histVars>>

\* l.389/391: the event loop runs a scheduled future.set_result or
\* future.set_exception; on a future that is already done it raises
\* InvalidStateError inside the loop's callback.
CallbackRun ==
  /\ Alive
  /\ callbacks # <<>>
  /\ callbacks' = Tail(callbacks)
  /\ LET id == Head(callbacks)[1]
         is_error == Head(callbacks)[2] IN
       IF fut[id] = "pending"
       THEN /\ fut' = [fut EXCEPT ![id] = IF is_error THEN "exception" ELSE "result"]
            /\ Writes(<<>>, <<>>)
       ELSE /\ Raises(<<>>, <<>>,
                      {IF fut[id] = "cancelled" THEN "InvalidStateError_cancelled"
                                                ELSE "InvalidStateError_settled"})
            /\ UNCHANGED fut
  /\ UNCHANGED <<readerVars, command_queue, mainVars, agent_task,
                 flagVars, current_context, turnVars, pending_requests, callPc,
                 nextId, outcome, removed, shutdownDone,
                 polling, streamVars, histVars>>

\* l.341: the 30 s deadline of wait_for passes with the future not done;
\* wait_for cancels the future.
TimeoutFire(i) ==
  /\ Alive
  /\ callPc[i] = "waiting"
  /\ fut[i] = "pending"
  /\ fut' = [fut EXCEPT ![i] = "cancelled"]
  /\ Writes(<<>>, <<>>)
  /\ UNCHANGED <<readerVars, command_queue, mainVars, agent_task,
                 flagVars, current_context, turnVars, pending_requests, callPc,
                 nextId, outcome, removed, callbacks, shutdownDone,
                 polling, streamVars, histVars>>

\* The pop placed after the return of the try body instead of in a finally
\* clause: a call that timed out keeps its entry.
PopRequestAfterReturn(i, timedOut) ==
  IF timedOut THEN pending_requests ELSE pending_requests \ {i}

\* l.351-352, the finally clause: the entry of the call leaves the dict
\* however the wait ended.
PopRequest(i, timedOut) == pending_requests \ {i}

\* l.341-352: bridge_request resumes with the result, the exception or
\* TimeoutError, and its finally clause pops the entry.
BridgeResume(i) ==
  /\ Alive
  /\ callPc[i] = "waiting"
  /\ fut[i] \in {"result", "exception", "cancelled"}
  /\ callPc' = [callPc EXCEPT ![i] = "done"]
  /\ outcome' = [outcome EXCEPT ![i] =
                   CASE fut[i] = "result" -> "resolved"
                     [] fut[i] = "exception" -> "rejected"
                     [] OTHER -> "timeout"]
  /\ CASE fut[i] = "result" ->
            Writes(<<"log">>, <<"bridge_request: resolved", "MCP call_tool result">>)
       [] fut[i] = "exception" ->
            Writes(<<>>, <<"MCP call_tool ERROR">>)
       [] OTHER ->
            Writes(<<"log">>, <<"bridge_request: TIMEOUT", "MCP call_tool TIMEOUT">>)
  /\ pending_requests' = PopRequest(i, fut[i] = "cancelled")
  /\ removed' = [removed EXCEPT ![i] =
                   IF pending_requests' # pending_requests THEN @ + 1 ELSE @]
  /\ UNCHANGED <<readerVars, command_queue, mainVars, agent_task,
                 flagVars, current_context, turnVars, fut, nextId, callbacks,
                 shutdownDone,
                 polling, streamVars, histVars>>

(* ---- the program ---- *)
Next ==
  \/ ReaderSkips(AnyHost)
  \/ ReaderDies(AnyHost)
  \/ ReaderToolResponse(AnyHost)
  \/ ReaderLookup
  \/ ReaderQueues(AnyHost)
  \/ ReaderEof
  \/ MainStartSession
  \/ MainConnectDone
  \/ MainSleepDone
  \/ MainUserMessage
  \/ MainInterruptDone
  \/ QueryTaskRun
  \/ MainSetContext
  \/ MainUnknown
  \/ MainShutdown
  \/ MainAfterCancel
  \/ MainDisconnectDone
  \/ ListenerResult
  \/ ListenerStops
  \/ AgentCancelled
  \/ ToolCallStart
  \/ CallbackRun
  \/ \E i \in Calls : TimeoutFire(i)
  \/ \E i \in Calls : BridgeResume(i)
  \/ Signal
  \/ MainPollTimeout
  \/ MainLoopExit
  \/ MainFinalDisconnect

Spec == Init /\ [][Next]_vars

(* ---- the program with a host that starts a session and sends messages ---- *)
TurnHost ==
  [lines |-> {Cmd("start_session"), UserMessage("t")}, turns |-> MaxTurns,
   responses |-> FALSE, queue |-> MaxQueue, callbacks |-> MaxCallbacks]

NextTurns ==
  \/ ReaderQueues(TurnHost)
  \/ MainStartSession
  \/ MainConnectDone
  \/ MainSleepDone
  \/ MainUserMessage
  \/ MainInterruptDone
  \/ QueryTaskRun
  \/ ListenerResult
  \/ ListenerStops

SpecTurns == Init /\ [][NextTurns]_vars

\* The event loop runs what is ready: main() resumes when interrupt() has
\* returned or raised and takes the command at the head of the queue, and a
\* created query task runs.  Nothing is assumed of the runtime's messages: the
\* completion of a turn may never come.
SpecInterrupt ==
  /\ SpecTurns
  /\ WF_vars(MainInterruptDone)
  /\ WF_vars(MainUserMessage)
  /\ WF_vars(QueryTaskRun)

(* ---- the program with tool calls, a host that answers them, ---- *)
(* ---- malformed lines, shutdown and end of input              ---- *)
CallTurns == 1

CallHost ==
  [lines |-> {GarbageLine, NonObjectLine, Cmd("start_session"),
              Cmd("shutdown"), UserMessage("t")},
   turns |-> CallTurns, responses |-> TRUE, queue |-> MaxQueue,
   callbacks |-> MaxCallbacks]

\* The steps that need nothing new from the host: the rest of a lookup of
\* the reader, the tasks, callbacks and timers of the event loop, and the
\* events of the runtime.
ProgramSteps ==
  \/ ReaderLookup
  \/ MainStartSession
  \/ MainConnectDone
  \/ MainSleepDone
  \/ MainUserMessage
  \/ QueryTaskRun
  \/ MainShutdown
  \/ MainAfterCancel
  \/ MainDisconnectDone
  \/ ListenerResult
  \/ ListenerStops
  \/ AgentCancelled
  \/ ToolCallStart
  \/ CallbackRun
  \/ \E i \in Calls : TimeoutFire(i)
  \/ \E i \in Calls : BridgeResume(i)

NextCalls ==
  \/ ReaderSkips(CallHost)
  \/ ReaderDies(CallHost)
  \/ ReaderToolResponse(CallHost)
  \/ ReaderQueues(CallHost)
  \/ ReaderEof
  \/ ProgramSteps

SpecCalls == Init /\ [][NextCalls]_vars

TypeOK ==
  /\ reader \in {"running", "lookup", "eof", "dead"}
  /\ mainPc \in {"wait", "connecting", "sleeping", "interrupting", "awaitAgent",
                 "disconnecting", "finalDisconnect", "exited"}
  /\ agent_task \in {"none", "running", "cancelling", "done"}
  /\ pending_requests \subseteq Calls
  /\ nextTurn \in 0..MaxTurns

(* ---- tool calls in a session the host keeps open ---- *)
\* The host starts a session, sends messages and answers tool requests; it
\* never sends shutdown, whose branch (l.688-698) leaves pending_requests alone.
RegistryHost ==
  [lines |-> {Cmd("start_session"), UserMessage("t")},
   turns |-> RegistryTurns, responses |-> TRUE, queue |-> RegistryQueue,
   callbacks |-> RegistryCallbacks]

NextRegistry ==
  \/ ReaderToolResponse(RegistryHost)
  \/ ReaderLookup
  \/ ReaderQueues(RegistryHost)
  \/ MainStartSession
  \/ MainConnectDone
  \/ MainSleepDone
  \/ MainUserMessage
  \/ QueryTaskRun
  \/ ListenerResult
  \/ ToolCallStart
  \/ CallbackRun
  \/ \E i \in Calls : TimeoutFire(i)
  \/ \E i \in Calls : BridgeResume(i)

SpecRegistry == Init /\ [][NextRegistry]_vars

(* ---- every command of the protocol, with tool calls that time out ---- *)
CommandTurns == 2
CommandQueue == 1
CommandCalls == 1

CommandHost ==
  [lines |-> {Cmd("start_session"), Cmd("shutdown"), Cmd("bogus"),
              UserMessage(""), UserMessage("t"), SetContext(TRUE, FALSE)},
   turns |-> CommandTurns, responses |-> FALSE, queue |-> CommandQueue,
   callbacks |-> MaxCallbacks]

NextCommands ==
  \/ ReaderQueues(CommandHost)
  \/ MainStartSession
  \/ MainConnectDone
  \/ MainSleepDone
  \/ MainUserMessage
  \/ MainInterruptDone
  \/ QueryTaskRun
  \/ MainSetContext
  \/ MainUnknown
  \/ MainShutdown
  \/ MainAfterCancel
  \/ MainDisconnectDone
  \/ ListenerResult
  \/ ListenerStops
  \/ AgentCancelled
  \/ nextId <= CommandCalls /\ ToolCallStart
  \/ \E i \in Calls : TimeoutFire(i)
  \/ \E i \in Calls : BridgeResume(i)

SpecCommands == Init /\ [][NextCommands]_vars

(* ---- set_context in a session with turns and tool calls ---- *)
ContextHost ==
  [lines |-> {Cmd("start_session"), UserMessage("t")}
             \cup {SetContext(wc, rb) : wc \in BOOLEAN, rb \in BOOLEAN},
   turns |-> CommandTurns, responses |-> FALSE, queue |-> CommandQueue,
   callbacks |-> MaxCallbacks]

NextContext ==
  \/ ReaderQueues(ContextHost)
  \/ MainStartSession
  \/ MainConnectDone
  \/ MainSleepDone
  \/ MainUserMessage
  \/ MainInterruptDone
  \/ QueryTaskRun
  \/ MainSetContext
  \/ ListenerResult
  \/ nextId <= CommandCalls /\ ToolCallStart
  \/ \E i \in Calls : TimeoutFire(i)
  \/ \E i \in Calls : BridgeResume(i)

SpecContext == Init /\ [][NextContext]_vars

(* ---- the reader thread beside the event loop: malformed lines, the ---- *)
(* ---- end of input, tool responses and commands                    ---- *)
ReaderTurns == 2
ReaderQueue == 1
ReaderCalls == 1
ReaderCallbacks == 1

ReaderHost ==
  [lines |-> {BlankLine, GarbageLine, NonObjectLine, Cmd("start_session"),
              UserMessage("t")},
   turns |-> ReaderTurns, responses |-> TRUE, queue |-> ReaderQueue,
   callbacks |-> ReaderCallbacks]

NextReader ==
  \/ ReaderSkips(ReaderHost)
  \/ ReaderDies(ReaderHost)
  \/ ReaderToolResponse(ReaderHost)
  \/ ReaderLookup
  \/ ReaderQueues(ReaderHost)
  \/ ReaderEof
  \/ MainStartSession
  \/ MainConnectDone
  \/ MainSleepDone
  \/ MainUserMessage
  \/ MainInterruptDone
  \/ QueryTaskRun
  \/ ListenerResult
  \/ nextId <= ReaderCalls /\ ToolCallStart
  \/ CallbackRun
  \/ \E i \in Calls : TimeoutFire(i)
  \/ \E i \in Calls : BridgeResume(i)

SpecReader == Init /\ [][NextReader]_vars

(* ---- a session whose turns stream content and deliver aggregate blocks ---- *)
StreamTurns == 2
StreamQueue == 1

StreamHost ==
  [lines |-> {Cmd("start_session"), UserMessage("t")}, turns |-> StreamTurns,
   responses |-> FALSE, queue |-> StreamQueue, callbacks |-> MaxCallbacks]

NextStream ==
  \/ ReaderQueues(StreamHost)
  \/ MainStartSession
  \/ MainConnectDone
  \/ MainSleepDone
  \/ MainUserMessage
  \/ MainInterruptDone
  \/ QueryTaskRun
  \/ ListenerStreamStart(AnyRuntime)
  \/ ListenerStreamDelta(AnyRuntime)
  \/ ListenerStreamStop
  \/ ListenerAssistant(AnyRuntime)
  \/ ListenerResult

SpecStream == Init /\ [][NextStream]_vars

(* ---- one message whose turn streams one text block and completes ---- *)
ScenarioDeltas == 4

ScenarioHost ==
  [lines |-> {Cmd("start_session"), UserMessage("t"), UserMessage(""),
              Cmd("bogus")},
   turns |-> 1,
   responses |-> FALSE, queue |-> StreamQueue, callbacks |-> MaxCallbacks]

ScenarioRuntime ==
  [kinds |-> {"text"}, deltas |-> ScenarioDeltas, blocks |-> {Block("text", "x")}]

\* The runtime streams the start of the text block, the deltas and the stop,
\* then delivers the aggregate AssistantMessage and the ResultMessage.
NextScenario ==
  \/ ReaderQueues(ScenarioHost)
  \/ MainStartSession
  \/ MainConnectDone
  \/ MainSleepDone
  \/ MainUserMessage
  \/ MainUnknown
  \/ QueryTaskRun
  \/ deltas = 0 /\ ListenerStreamStart(ScenarioRuntime)
  \/ ListenerStreamDelta(ScenarioRuntime)
  \/ deltas = ScenarioDeltas /\ ListenerStreamStop
  \/ deltas = ScenarioDeltas /\ block = "none" /\ ListenerAssistant(ScenarioRuntime)
  \/ deltas = ScenarioDeltas /\ block = "none" /\ ListenerResult

SpecScenario == Init /\ [][NextScenario]_vars

(* ---- a session that a termination signal ends ---- *)
SignalTurns == 2
SignalQueue == 1
SignalCalls == 1

\* The host never sends shutdown: running is cleared by handle_signal only.
SignalHost ==
  [lines |-> {Cmd("start_session"), UserMessage("t")},
   turns |-> SignalTurns, responses |-> FALSE, queue |-> SignalQueue,
   callbacks |-> MaxCallbacks]

NextSignal ==
  \/ ReaderQueues(SignalHost)
  \/ MainStartSession
  \/ MainConnectDone
  \/ MainSleepDone
  \/ MainUserMessage
  \/ MainInterruptDone
  \/ QueryTaskRun
  \/ ListenerResult
  \/ ListenerStops
  \/ AgentCancelled
  \/ nextId <= SignalCalls /\ ToolCallStart
  \/ \E i \in Calls : TimeoutFire(i)
  \/ \E i \in Calls : BridgeResume(i)
  \/ Signal
  \/ MainPollTimeout
  \/ MainLoopExit
  \/ MainFinalDisconnect

SpecSignal == Init /\ [][NextSignal]_vars

(* ---- properties ---- *)
\* The turns whose ResultMessage the listener has received.
ReceivedTurns == {t \in 1..nextTurn : connected /\ t \notin OpenTurns}

\* C1: a turn that a later message preempted emits no turn_ended, and a turn
\* that no message preempted emits exactly one turn_ended once the runtime
\* has reported its completion.
C1_TurnSingularity ==
  \A t \in Turns :
    /\ preempted[t] => turnEnded[t] = 0
    /\ (t \in ReceivedTurns /\ ~preempted[t]) => turnEnded[t] = 1

\* C2: while a tool call waits for its response and the inbound stream is
\* open, the reader thread is there to handle a tool_response line.
C2_NonStarvation ==
  (Alive /\ reader # "eof" /\ \E i \in Calls : callPc[i] = "waiting")
    => reader \in {"running", "lookup"}

\* C3: a turn_ended is only ever emitted on the completion of the newest
\* accepted message: the completion of a message that another one preempted
\* emits none.
C3_PreemptionTieBreak ==
  [][\A t \in Turns : turnEnded'[t] > turnEnded[t] => t = nextTurn]_vars

\* C4: the ids issued are those of the calls started, one each; the keys of
\* pending_requests are exactly the ids of the calls that wait; a call that
\* ended has one outcome and its id was removed once, a call that has not
\* ended has no outcome and its id was never removed.
C4_CorrelationOnce ==
  /\ {i \in Calls : callPc[i] # "unused"} = 1..(nextId - 1)
  /\ pending_requests = {i \in Calls : callPc[i] = "waiting"}
  /\ \A i \in Calls :
       IF callPc[i] = "done"
       THEN removed[i] = 1 /\ outcome[i] \in {"resolved", "rejected", "timeout"}
       ELSE removed[i] = 0 /\ outcome[i] = "none"

\* C4, its case: a call has timed out and its id has been removed while
\* another call still waits under its own id.
C4_Witness ==
  \E i, j \in Calls :
    /\ outcome[i] = "timeout" /\ removed[i] = 1
    /\ callPc[j] = "waiting" /\ j \in pending_requests

\* C5: when the shutdown command has stopped the main loop, no entry of
\* pending_requests holds a future that is not settled.
C5_ShutdownAbandons ==
  mainPc = "exited" => \A i \in pending_requests : fut[i] # "pending"

\* C6: once the shutdown command has been processed, the main loop has
\* stopped and the runtime is disconnected.
C6_ShutdownTerminates ==
  shutdownDone => (mainPc = "exited" /\ ~running /\ ~connected)

\* C7: once the reader has reached the end of input, the main loop stops:
\* when the end of input was reached and no step of the program is left to
\* take, the main loop has stopped and the runtime is disconnected.
C7_EofShutsDown ==
  (reader = "eof" /\ ~ENABLED ProgramSteps)
    => (mainPc = "exited" /\ ~running /\ ~connected)

\* C8: a call that timed out has left pending_requests, and a settle that
\* runs on the future of a timed-out call raises nothing.
C8_TimeoutBoundary ==
  /\ \A i \in Calls : outcome[i] = "timeout" => i \notin pending_requests
  /\ "InvalidStateError_cancelled" \notin raised

\* C9: a settle never runs on a future that a tool_response has settled
\* already, so that none raises.
C9_SettledOnce == "InvalidStateError_settled" \notin raised

\* C10: the step that reads a line json.loads rejects writes exactly one
\* error event, changes nothing of the session, the turn flags, the context
\* and the registry, and leaves the reader running.
C10_MalformedLine ==
  [][err' = <<"invalid JSON">> =>
       /\ out' = <<"error">>
       /\ reader' = "running"
       /\ UNCHANGED <<mainVars, agent_task, flagVars, current_context,
                      pending_requests, fut, command_queue>>]_vars

\* The agent_text events of the latest step, and whether their contents are,
\* in order, the texts of the given blocks.
ShownTexts == SelectSeq(outText, LAMBDA e : e.type = "agent_text")

ShowsVerbatim(shown, blocks) ==
  /\ Len(shown) = Len(blocks)
  /\ \A k \in 1..Len(blocks) : shown[k].content = blocks[k].text

\* C11 as stated: when the listener handles an AssistantMessage in a turn
\* that has streamed text, no agent_text and no agent_thinking goes out; in a
\* turn that has streamed no text, every text block of the message goes out
\* as one agent_text with the text of the block.
C11_EveryBlockEmitted ==
  message # <<>> =>
    IF textStreamed
    THEN \A k \in 1..Len(out) : out[k] \notin {"agent_text", "agent_thinking"}
    ELSE ShowsVerbatim(ShownTexts, SelectSeq(message, LAMBDA b : b.type = "text"))

\* C11 as amended: when the listener handles an AssistantMessage in a turn
\* that has streamed text, no agent_text and no agent_thinking goes out; in a
\* turn that has streamed no text, every text block that is not blank goes
\* out as one agent_text with the text of the block, and a blank one does not.
C11_StreamingDeduplication ==
  message # <<>> =>
    IF textStreamed
    THEN \A k \in 1..Len(out) : out[k] \notin {"agent_text", "agent_thinking"}
    ELSE ShowsVerbatim(ShownTexts,
                       SelectSeq(message, LAMBDA b : b.type = "text"
                                                     /\ b.text \notin {"", " "}))

\* C11, its case: an AssistantMessage with a text block arrived in a turn
\* that had streamed text deltas, and no agent_text went out.
C11_Witness ==
  /\ message # <<>>
  /\ \E k \in 1..Len(message) : message[k].type = "text" /\ message[k].text = "x"
  /\ textStreamed /\ deltas > 0
  /\ \A k \in 1..Len(out) : out[k] # "agent_text"

\* A step in which main() takes a start_session command while a client exists.
StartWhileActive ==
  /\ mainPc = "wait" /\ client
  /\ command_queue # <<>> /\ Head(command_queue).command = "start_session"
  /\ command_queue' = Tail(command_queue)

\* C12: a start_session processed while a client exists creates no client,
\* starts no listener, emits no session_ready and leaves the turn flags, the
\* context and the pending calls as they are; the process constructs at most
\* one client.
C12_StartIdempotent ==
  /\ [](sessions <= 1)
  /\ [][StartWhileActive =>
          /\ UNCHANGED <<mainPc, client, connected, sessions, agent_task,
                         flagVars, current_context, pending_requests, fut,
                         queryTasks, outstanding>>
          /\ \A k \in 1..Len(out') : out'[k] # "session_ready"]_vars

\* C12, its case: a second start_session was turned away ("Session already
\* active") in a session that has a client and a running listener.
C12_Witness ==
  /\ sessions = 1 /\ client /\ agent_task = "running"
  /\ err = <<"processing command", "Session already active">>

\* The deltas of the scenario in the order of the runtime, then turn_ended.
ScenarioEvents ==
  [k \in 1..ScenarioDeltas |-> Event("stream_text_delta", k)]
    \o <<Event("turn_ended", 0)>>

\* C13: in the scenario the stream_text_delta, agent_text and turn_ended
\* events that went out are at every moment a prefix of: the deltas in the
\* order of the runtime, then one turn_ended; once the ResultMessage is
\* received they are exactly that sequence, with no agent_text.
C13_FourDeltasThenTurnEnded ==
  /\ Len(events) <= Len(ScenarioEvents)
  /\ \A k \in 1..Len(events) : events[k] = ScenarioEvents[k]
  /\ results = 1 => events = ScenarioEvents

\* C13, its case: the turn streamed its deltas, the aggregate block arrived
\* and the runtime reported completion.
C13_Witness ==
  /\ results = 1 /\ nextTurn = 1 /\ outstanding = <<>>
  /\ Len(events) = ScenarioDeltas + 1
  /\ out = <<"log", "turn_ended">>

\* C14: when the runtime's event sequence raised inside the listener, one
\* error event went out, the listener ended and main() still runs; a
\* start_session that main() takes afterwards connects a client again.
C14_ErrorRecovery ==
  [][/\ (agentError' /\ ~agentError) =>
          /\ Len(SelectSeq(out', LAMBDA e : e = "error")) = 1
          /\ agent_task' = "done" /\ running' /\ mainPc' # "exited"
     /\ (/\ agentError /\ agent_task = "done" /\ mainPc = "wait"
         /\ command_queue # <<>> /\ Head(command_queue).command = "start_session"
         /\ command_queue' = Tail(command_queue))
          => mainPc' = "connecting"]_vars

\* A step in which main() takes a command off command_queue.
TakesCommand ==
  /\ mainPc = "wait" /\ command_queue # <<>>
  /\ command_queue' = Tail(command_queue)

\* C15: every command main() takes changes the state of the session, emits
\* an event or logs more than the receipt of the command, and no command is
\* left in command_queue when main() has stopped.
C15_NoSilentDrop ==
  /\ [](mainPc = "exited" => command_queue = <<>>)
  /\ [][TakesCommand =>
          \/ <<mainVars, agent_task, flagVars, current_context, turnVars,
               callVars>>' # <<mainVars, agent_task, flagVars, current_context,
                              turnVars, callVars>>
          \/ out' # <<>>
          \/ err' # <<"processing command">>]_vars

\* A settle with is_error that the reader scheduled for call i waits on the
\* event loop, with no other settle for i ahead of it.
RejectionScheduled(i) ==
  \E k \in 1..Len(callbacks) :
    /\ callbacks[k] = <<i, TRUE>>
    /\ \A j \in 1..(k - 1) : callbacks[j][1] # i

\* C16: the call for which the reader has accepted a tool_response with
\* is_error is still waiting when the rejection reaches it, so that it ends
\* rejected with that error; the rejection emits no turn_ended and leaves
\* query_active, interrupt_flag and the turns as they are.
C16_RejectionKeepsTurn ==
  /\ [](\A i \in Calls : RejectionScheduled(i) => fut[i] = "pending")
  /\ [][(\E i \in Calls : \/ (fut'[i] = "exception" /\ fut[i] # "exception")
                           \/ (outcome'[i] = "rejected" /\ outcome[i] # "rejected"))
          => /\ \A k \in 1..Len(out') : out'[k] # "turn_ended"
             /\ UNCHANGED <<query_active, interrupt_flag, outstanding, turnEnded>>]_vars

\* C17: a step in which main() takes set_context changes no session state
\* and no pending call, emits nothing, and leaves as preamble exactly the
\* parts the command carries: the code of the warrior if present, then the
\* recent battle if present, nothing of the earlier preamble.
C17_SetContextOnly ==
  [][(TakesCommand /\ Head(command_queue).command = "set_context") =>
       /\ UNCHANGED <<mainVars, agent_task, flagVars, turnVars, callVars,
                      callbacks, sessions, streamed_text>>
       /\ out' = <<>>
       /\ LET cmd == Head(command_queue) IN
            /\ ("warrior_code" \in {current_context'[k] : k \in 1..Len(current_context')})
                 <=> cmd.warrior_code
            /\ ("recent_battle" \in {current_context'[k] : k \in 1..Len(current_context')})
                 <=> cmd.recent_battle
            /\ Len(current_context') <= 2
            /\ Len(current_context') = 2 => current_context'[1] = "warrior_code"]_vars

\* C17, its case: set_context was processed during an active turn with a
\* pending tool call, and the preamble holds only the recent battle.
C17_Witness ==
  /\ err = <<"processing command", "Context updated">>
  /\ current_context = <<"recent_battle">>
  /\ query_active /\ pending_requests # {} /\ agent_task = "running"

\* The turn_ended events that went out so far.
TurnEndedEvents == Len(SelectSeq(events, LAMBDA e : e.type = "turn_ended"))

\* C18: a step writes turn_ended only when the listener receives a
\* ResultMessage in that step, and the turn_ended events never outnumber the
\* ResultMessages received.
C18_TurnEndedOnlyOnResult ==
  /\ [](TurnEndedEvents <= results)
  /\ [][(\E k \in 1..Len(out') : out'[k] = "turn_ended") =>
          /\ agent_task = "running" /\ outstanding # <<>>
          /\ outstanding' = Tail(outstanding)
          /\ results' = results + 1
          /\ TurnEndedEvents' = TurnEndedEvents + 1]_vars

\* C18, its case: the runtime has reported two completions, the first of a
\* preempted turn, and one turn_ended went out, written by the step that
\* received the second.
C18_Witness ==
  /\ results = 2 /\ TurnEndedEvents = 1
  /\ out = <<"log", "turn_ended">>

\* The debug lines that only _stdin_reader_thread writes, by which a step of
\* the reader thread is told from a step of the event loop thread.
ReaderDebugs ==
  {"invalid JSON", "received command", "stdin thread error",
   "stdin thread exited", "resolved future", "future already done"}

ReaderThreadStep ==
  \/ reader' # reader
  \/ readerCmd' # readerCmd
  \/ Len(command_queue') > Len(command_queue)
  \/ err' # <<>> /\ err'[1] \in ReaderDebugs

\* C19: every emit runs on the event loop thread, where a callback or task
\* runs emit() to its end before another one runs; the one other thread, the
\* reader, writes nothing to stdout in any of its steps, so that no emit
\* overlaps another.
C19_SingleWriterThread ==
  [][ReaderThreadStep => out' = <<>>]_vars

\* C19, its case: the reader thread handled a line that is not JSON while a
\* turn was active and a tool call was waiting, and wrote to stderr only.
C19_Witness ==
  /\ err = <<"invalid JSON">> /\ out = <<>>
  /\ query_active /\ pending_requests # {}

\* C20: when a termination signal has stopped the main loop and main() has
\* returned, the listener task is cancelled or over, no pending tool call is
\* left with an unsettled future, and the runtime is disconnected, as after
\* the shutdown command.
C20_SignalShutsDown ==
  (~running /\ mainPc = "exited") =>
    /\ agent_task # "running"
    /\ \A i \in pending_requests : fut[i] # "pending"
    /\ ~connected

\* The listener receives the ResultMessage of a turn whose interrupted flag is
\* set.
StaleCompletion == results' = results + 1 /\ interrupt_flag

\* C21: the completion of a preempted turn clears interrupt_flag, emits
\* nothing, and leaves query_active set as long as a newer turn is queued for
\* or with the runtime, so that the next user_message is a preemption again.
C21_StaleCompletionStaysBusy ==
  [][StaleCompletion =>
       /\ ~interrupt_flag'
       /\ out' = <<>>
       /\ (queryTasks' # <<>> \/ outstanding' # <<>>) => query_active']_vars

\* C22 as stated: streamed_text goes from set to clear only in a step that
\* emits turn_ended, so the swallowed completion of a preempted turn leaves
\* it as it is.
C22_ClearedOnlyOnTurnEnded ==
  [][(streamed_text /\ ~streamed_text') =>
       \E k \in 1..Len(out') : out'[k] = "turn_ended"]_vars

HasText(content) ==
  \E k \in 1..Len(content) :
    content[k].type = "text" /\ content[k].text \notin {"", " "}

\* C22 as amended: streamed_text is set exactly when text was streamed since
\* the last completion the runtime reported; every completion clears it, the
\* swallowed one of a preempted turn included; so an AssistantMessage has its
\* text held back only when text was streamed since the last completion, and
\* has it sent as agent_text only when none was.
C22_FlagOfOneTurn ==
  /\ [](streamed_text <=> textStreamed)
  /\ [][results' = results + 1 => ~streamed_text']_vars
  /\ [][message' # <<>> =>
          /\ (\E k \in 1..Len(out') : out'[k] = "agent_text") => ~textStreamed
          /\ (HasText(message') /\ ~textStreamed) =>
               \E k \in 1..Len(out') : out'[k] = "agent_text"]_vars

\* C22, its case: the first turn streamed text and was preempted, its
\* completion was swallowed, and the aggregate text of the second turn went
\* out as agent_text.
C22_Witness ==
  /\ preempted[1] /\ results = 1 /\ turnEnded[1] = 0
  /\ message # <<>>
  /\ \E k \in 1..Len(out) : out[k] = "agent_text"
  /\ \E k \in 1..Len(events) : events[k].type = "stream_text_delta"

\* C23: a future is settled with a result or an exception only by the settle
\* the reader scheduled for a tool_response carrying the id of its call, with
\* the payload of that response (an exception when is_error, a result when
\* not), and that step changes no other future and no entry of
\* pending_requests; the reader schedules a settle only for the call whose id
\* the response it holds carries, touching no call; and a call ends resolved,
\* rejected or timed out as its own future was settled, whatever the order of
\* the responses.
C23_CorrelatedById ==
  [][/\ \A i \in Calls :
          (fut'[i] # fut[i] /\ fut'[i] \in {"result", "exception"}) =>
            /\ callbacks # <<>> /\ Head(callbacks)[1] = i
            /\ fut'[i] = (IF Head(callbacks)[2] THEN "exception" ELSE "result")
            /\ \A j \in Calls \ {i} : fut'[j] = fut[j]
            /\ UNCHANGED <<pending_requests, callPc, outcome>>
     /\ Len(callbacks') > Len(callbacks) =>
          /\ callbacks' = Append(callbacks, <<readerCmd.request_id, readerCmd.is_error>>)
          /\ readerCmd.request_id \in pending_requests
          /\ fut[readerCmd.request_id] = "pending"
          /\ UNCHANGED <<fut, pending_requests, callPc, outcome>>
     /\ \A i \in Calls :
          outcome'[i] # outcome[i] =>
            /\ outcome'[i] = (CASE fut[i] = "result" -> "resolved"
                                [] fut[i] = "exception" -> "rejected"
                                [] OTHER -> "timeout")
            /\ \A j \in Calls \ {i} : outcome'[j] = outcome[j] /\ fut'[j] = fut[j]
    ]_vars

\* C23, its case: two calls wait at once and the response to the later
\* request was handled first: the later call has its result and the earlier
\* one is still pending.
C23_Witness ==
  \E i, j \in Calls :
    /\ i < j
    /\ callPc[i] = "waiting" /\ fut[i] = "pending"
    /\ callPc[j] = "waiting" /\ fut[j] = "result"
    /\ {i, j} \subseteq pending_requests

C25_MessageWithoutSession ==
  [][(TakesCommand /\ Head(command_queue).command = "user_message" /\ ~client) =>
       /\ out' = <<"error">>
       /\ UNCHANGED <<flagVars, queryTasks, outstanding, nextTurn>>]_vars

SessionReadyIn(sent) == \E k \in 1..Len(sent) : sent[k] = "session_ready"

\* C26: at most one session_ready is emitted in a run; the step that emits
\* it follows the return of connect() and the creation of the listener task;
\* the step in which connect() raises emits none, and as long as no listener
\* task was created none has been emitted.
C26_SessionReadyOnce ==
  /\ [](readies <= 1)
  /\ [](readies = 1 => agent_task # "none")
  /\ [][SessionReadyIn(out') =>
          /\ mainPc = "sleeping" /\ connected /\ agent_task # "none"
          /\ readies = 0]_vars
  /\ [][(mainPc = "connecting" /\ ~connected') =>
          ~SessionReadyIn(out') /\ readies' = readies]_vars

\* C26, its case: session_ready went out once and a later start_session was
\* answered with "Session already active".
C26_Witness ==
  /\ readies = 1
  /\ err = <<"processing command", "Session already active">>

====
